---- MODULE Spec2Model ----
(***************************************************************************)
(* Model of the groceries receipt app: the login rate limiter and          *)
(* credential check (library/user_db.py), the session state                *)
(* (library/state.py), the login/logout pages (app/main.py) and the        *)
(* receipt wizard (app/tools/process_image.py, library/handler.py).        *)
(*                                                                         *)
(* Conventions: a Python Optional is a sequence, <<>> for None and <<x>>   *)
(* for a value x; a dict is a function whose DOMAIN is the set of keys.    *)
(***************************************************************************)
EXTENDS Integers, Sequences, FiniteSets, TLC

VARIABLES
    now,               \* datetime.datetime.now(), in seconds
    attempts,          \* rate_limiter.attempts: dict[str, Attempt]
    sqlite_present,    \* the file user.db can be opened
    postgres_present,  \* DATABASE_URL is set and the server answers
    roots,             \* accounts whose extraction and collation directories exist
    sessions,          \* the browser sessions that are open
    app_state,         \* st.session_state["app_state"], per session
    settings,          \* st.session_state["settings"], per session
    fs,                \* the receipt directories on disk and their files
    last               \* what the last script run did (messages, calls, result)

vars == <<now, attempts, sqlite_present, postgres_present, roots, sessions,
          app_state, settings, fs, last>>

----------------------------------------------------------------------------
(* Bounds of the model *)

MaxTime == 62
MaxCount == 2

TimeSteps == {30, 31}
AllSessions == {"s1", "s2"}
UsernameInputs == {"", "og", "al"}
PasswordInputs == {"", "pw_og", "pw_al"}

None == <<>>
Some(x) == <<x>>
IsNone(o) == o = <<>>
Get(o) == o[1]

----------------------------------------------------------------------------
(* library/user_db.py: credential stores *)

\* bcrypt.hashpw(password, salt): an opaque value that binds salt and password
hashpw(password, salt) == <<"$2b$", salt, password>>

\* bcrypt.checkpw(password, hashed): re-hash with the salt of hashed, compare
checkpw(password, hashed) == hashed = hashpw(password, hashed[2])

\* rows of table user in user.db (create-user-db.py writes og only)
SqliteRows == << <<"og", hashpw("pw_og", "salt1")>> >>

\* rows of table app_users in the PostgreSQL database
PostgresRows == << <<"og", hashpw("pw_og", "salt2")>>,
                   <<"al", hashpw("pw_al", "salt3")>> >>

\* the loop "for user, hpw in rows: if user == username: retrieved = hpw"
RECURSIVE ScanRows(_, _, _)
ScanRows(rows, username, retrieved) ==
    IF rows = <<>> THEN retrieved
    ELSE ScanRows(Tail(rows), username,
                  IF Head(rows)[1] = username THEN Head(rows)[2] ELSE retrieved)

get_user_password_in_sqlite_db(username) == ScanRows(SqliteRows, username, <<>>)

get_user_password_in_postgresql_db(username) == ScanRows(PostgresRows, username, <<>>)

\* sqlite3.connect("file:user.db?mode=ro", uri=True): what opening the file gives
sqlite_connect(present) == IF present THEN "ok" ELSE "sqlite3.OperationalError"

\* psycopg.connect(conninfo=...) and "SELECT 1": what the server gives; without
\* DATABASE_URL the probe answers False before it connects
psycopg_connect(present) == IF present THEN "ok" ELSE "psycopg.OperationalError"

\* variant: the probe lets the connection error through
check_sqlite_db_present_uncaught(present) ==
    [result |-> sqlite_connect(present) = "ok",
     raised |-> IF sqlite_connect(present) = "ok" THEN "" ELSE sqlite_connect(present)]

\* check_sqlite_db_present: "except sqlite3.Error: return False"
check_sqlite_db_present(present) ==
    [result |-> sqlite_connect(present) = "ok", raised |-> ""]

\* check_postgresql_db_present: "except psycopg.OperationalError / Exception:
\* return False"
check_postgresql_db_present(present) ==
    [result |-> psycopg_connect(present) = "ok", raised |-> ""]

----------------------------------------------------------------------------
(* library/user_db.py: User validation and the rate limiter *)

RATE_LIMIT_COUNT == 1
RATE_LIMIT_WINDOW == 60

\* variant: only the username is validated
UserIsValid_username_only(username, password) == Len(username) # 0

\* User(username=..., password=...): min_length raises for an empty field
UserIsValid(username, password) == Len(username) # 0 /\ Len(password) # 0

Put(d, k, v) == [x \in DOMAIN d \cup {k} |-> IF x = k THEN v ELSE d[x]]

\* variant: the record is reset from the 60th second on
increment_reset_at_window(att, username, t) ==
    IF username \notin DOMAIN att
    THEN Put(att, username, [count |-> 1, last_time |-> t])
    ELSE LET a == att[username]
             dt == t - a.last_time
         IN IF dt >= RATE_LIMIT_WINDOW
            THEN Put(att, username, [count |-> 1, last_time |-> t])
            ELSE Put(att, username, [count |-> a.count + 1, last_time |-> a.last_time])

\* RateLimiter.increment at time t
increment(att, username, t) ==
    IF username \notin DOMAIN att
    THEN Put(att, username, [count |-> 1, last_time |-> t])
    ELSE LET a == att[username]
             dt == t - a.last_time
         IN IF dt > RATE_LIMIT_WINDOW
            THEN Put(att, username, [count |-> 1, last_time |-> t])
            ELSE Put(att, username, [count |-> a.count + 1, last_time |-> a.last_time])

\* variant: the threshold compared with >= instead of >
check_limit_exceeded_ge(att, username, t) ==
    LET att2 == increment(att, username, t)
    IN [attempts |-> att2, exceeded |-> att2[username].count >= RATE_LIMIT_COUNT]

\* RateLimiter.check_limit_exceeded: the table after the call and the result
check_limit_exceeded(att, username, t) ==
    LET att2 == increment(att, username, t)
    IN [attempts |-> att2, exceeded |-> att2[username].count > RATE_LIMIT_COUNT]

\* variant: the remote store is asked when the local store has no row
check_is_legit_user_fallthrough(att, username, password, t, sqlite, postgres) ==
    LET lim == check_limit_exceeded(att, username, t)
        out(res, calls) == [attempts |-> lim.attempts, exceeded |-> lim.exceeded,
                            result |-> res, calls |-> calls, raised |-> ""]
        local == IF sqlite THEN get_user_password_in_sqlite_db(username) ELSE <<>>
        remote == IF postgres THEN get_user_password_in_postgresql_db(username) ELSE <<>>
        retrieved == IF local # <<>> THEN local ELSE remote
    IN IF lim.exceeded THEN out(FALSE, <<>>)
       ELSE IF retrieved = <<>> THEN out(FALSE, <<"check_sqlite_db_present">>)
       ELSE out(checkpw(password, retrieved), <<"check_sqlite_db_present", "bcrypt.checkpw">>)

\* variant: a successful check forgets the attempts of the username
check_is_legit_user_reset(att, username, password, t, sqlite, postgres) ==
    LET lim == check_limit_exceeded(att, username, t)
        retrieved == IF sqlite THEN get_user_password_in_sqlite_db(username)
                     ELSE IF postgres THEN get_user_password_in_postgresql_db(username)
                     ELSE <<>>
        res == ~lim.exceeded /\ retrieved # <<>> /\ checkpw(password, retrieved)
    IN [attempts |-> IF res THEN [x \in DOMAIN lim.attempts \ {username} |-> lim.attempts[x]]
                     ELSE lim.attempts,
        exceeded |-> lim.exceeded, result |-> res, calls |-> <<>>, raised |-> ""]

\* variant: the remote store is probed first
check_is_legit_user_remote_first(att, username, password, t, sqlite, postgres) ==
    LET lim == check_limit_exceeded(att, username, t)
        out(res, calls) == [attempts |-> lim.attempts, exceeded |-> lim.exceeded,
                            result |-> res, calls |-> calls, raised |-> ""]
        verify(retrieved, calls) ==
            IF retrieved = <<>> THEN out(FALSE, calls)
            ELSE out(checkpw(password, retrieved), Append(calls, "bcrypt.checkpw"))
    IN IF lim.exceeded THEN out(FALSE, <<>>)
       ELSE IF postgres
            THEN verify(get_user_password_in_postgresql_db(username),
                        <<"check_postgresql_db_present",
                          "get_user_password_in_postgresql_db">>)
       ELSE IF sqlite
            THEN verify(get_user_password_in_sqlite_db(username),
                        <<"check_postgresql_db_present", "check_sqlite_db_present",
                          "get_user_password_in_sqlite_db">>)
       ELSE out(FALSE, <<"check_postgresql_db_present", "check_sqlite_db_present">>)

\* check_is_legit_user: the table after the call, the result, the backend
\* calls made, in order, and the exception that left the call, if any
check_is_legit_user(att, username, password, t, sqlite, postgres) ==
    LET lim == check_limit_exceeded(att, username, t)
        out(res, calls) == [attempts |-> lim.attempts, exceeded |-> lim.exceeded,
                            result |-> res, calls |-> calls, raised |-> ""]
        failed(exc, calls) == [out(FALSE, calls) EXCEPT !.raised = exc]
        verify(retrieved, calls) ==
            IF retrieved = <<>> THEN out(FALSE, calls)
            ELSE out(checkpw(password, retrieved), Append(calls, "bcrypt.checkpw"))
        local == check_sqlite_db_present(sqlite)
        remote == check_postgresql_db_present(postgres)
    IN IF lim.exceeded THEN out(FALSE, <<>>)
       ELSE IF local.raised # ""
            THEN failed(local.raised, <<"check_sqlite_db_present">>)
       ELSE IF local.result
            THEN verify(get_user_password_in_sqlite_db(username),
                        <<"check_sqlite_db_present", "get_user_password_in_sqlite_db">>)
       ELSE IF remote.raised # ""
            THEN failed(remote.raised,
                        <<"check_sqlite_db_present", "check_postgresql_db_present">>)
       ELSE IF remote.result
            THEN verify(get_user_password_in_postgresql_db(username),
                        <<"check_sqlite_db_present", "check_postgresql_db_present",
                          "get_user_password_in_postgresql_db">>)
       ELSE out(FALSE, <<"check_sqlite_db_present", "check_postgresql_db_present">>)

----------------------------------------------------------------------------
(* library/settings.py and library/state.py *)

use_user == TRUE

\* Data._root_dir: the account a Settings object addresses
_root_dir(username) == IF Len(username) # 0 /\ use_user THEN username ELSE ""

\* Data.check_subdirs_exist: FileExistsError unless both directories exist
SettingsValid(username) == _root_dir(username) \in roots

States == {"login", "upload", "rotate", "crop", "extract", "wrangle", "save", "done"}

\* AppState()
NewAppState == [state |-> "login", is_logged_in |-> FALSE,
                image_handler |-> None, username |-> None]

\* set_logging_in_state_if_not_logged_in, run by main() at the start of each run
set_logging_in_state_if_not_logged_in(as) ==
    IF as.is_logged_in THEN as ELSE [as EXCEPT !.state = "login"]

\* init_settings: only the first call of a session stores a Settings object
init_settings(stg, username) == IF IsNone(stg) THEN Some(username) ELSE stg

Idle == [op |-> "none", session |-> "", username |-> "", password |-> "",
         message |-> "", raised |-> "", checked |-> FALSE, exceeded |-> FALSE,
         result |-> FALSE, calls |-> <<>>, returned |-> "", file |-> None,
         archive |-> <<>>, args |-> None]

----------------------------------------------------------------------------
(* library/schemas.py: receipts and their dataframes *)

\* what the extraction returns, and what the user can make of it in the editor
Receipts ==
    { [shop |-> [name |-> "Rewe", date_str |-> "2021-05-13", time_str |-> "16:46",
                 total |-> 3],
       items |-> << [name |-> "Milch", price |-> 3, count |-> <<1>>, mass |-> <<>>,
                     tax |-> <<"A">>, category |-> <<"Dairy">>] >>],
      [shop |-> [name |-> "Rewe", date_str |-> "13.5.2021", time_str |-> "late",
                 total |-> 4],
       items |-> << [name |-> "Milch", price |-> 4, count |-> <<1>>, mass |-> <<>>,
                     tax |-> <<"A">>, category |-> <<"Dairy">>] >>] }

\* Shop.date: "%Y-%m-%d", then "%d.%m.%Y", else None
ShopDate(date_str) ==
    IF date_str = "2021-05-13" THEN Some(<<2021, 5, 13>>)
    ELSE IF date_str = "13.5.2021" THEN Some(<<2021, 5, 13>>)
    ELSE None

\* Shop.time: "%H:%M", then "%H:%M:%S", else None
ShopTime(time_str) == IF time_str = "16:46" THEN Some(<<16, 46, 0>>) ELSE None

\* convert_to_dataframe_shop: a dataframe is the sequence of its rows
convert_to_dataframe_shop(receipt) ==
    << [name |-> receipt.shop.name, date |-> ShopDate(receipt.shop.date_str),
        time |-> ShopTime(receipt.shop.time_str), total |-> receipt.shop.total,
        date_str |-> receipt.shop.date_str, time_str |-> receipt.shop.time_str] >>

\* convert_to_dataframe_items: one row per item, the fields of Item.model_dump()
convert_to_dataframe_items(receipt) == receipt.items

\* polars_info_dataframes_to_pydantic: Shop(**row) keeps the declared fields
polars_info_dataframes_to_pydantic(shop, items) ==
    [shop |-> [name |-> shop[1].name, date_str |-> shop[1].date_str,
               time_str |-> shop[1].time_str, total |-> shop[1].total],
     items |-> items]

----------------------------------------------------------------------------
(* library/utils.py and library/handler.py: images, files, ImageHandler *)

\* what can be uploaded: a file name and its bytes
Uploads == { [name |-> "a.jpg", bytes |-> <<"raw", "B1">>],
             [name |-> "a.jpg", bytes |-> <<"raw", "B2">>],
             [name |-> "b.jpg", bytes |-> <<"raw", "B1">>] }
Degrees == {0, 90}
Boxes == {"box"}

\* PIL: Image.open of uploaded bytes, Image.rotate, the cropper, Image.save, Image.open
ImageOpen(bytes) == [src |-> bytes[2], angle |-> 0, crop |-> "none"]
Rotate(image, angle) == [image EXCEPT !.angle = (@ + angle) % 360]
Crop(image, box) == [image EXCEPT !.crop = box]
JpegFile(image) == <<"jpeg", image>>
ImageOpenFile(file) == file[2]

\* StoredFileNames
StoredFileNames ==
    [original_image |-> "original-image.jpg", rotated_image |-> "rotated-image.jpg",
     cropped_image |-> "cropped-image.jpg", edited_image |-> "edited-image.jpg",
     shop_info_json |-> "shop-info.json", shop_info_parquet |-> "shop-info.parquet",
     items_info_json |-> "items-info.json", items_info_parquet |-> "items-info.parquet"]

FileNames == {StoredFileNames[k] : k \in DOMAIN StoredFileNames}

\* a directory just made
EmptyDir == [f \in FileNames |-> None]

\* get_image_hash: sha256 hexdigest, one value per byte string
get_image_hash(bytes) == <<"sha256", bytes[2]>>

\* get_image_dir_name: <extraction dir of the settings>/<file name>-<hash>
get_image_dir_name(stg, image_hash, original_file_name) ==
    <<_root_dir(Get(stg)), original_file_name, image_hash>>

Exists(files, dir, name) == dir \in DOMAIN files /\ ~IsNone(files[dir][name])

WriteFile(files, dir, name, content) ==
    [files EXCEPT ![dir] = [@ EXCEPT ![name] = Some(content)]]

\* variant: a file that is there is never written again
save_image_as_jpg_file_keep(files, dir, name, image, overwrite, mkdir) ==
    IF dir \notin DOMAIN files /\ ~mkdir
    THEN [fs |-> files, raised |-> "FileNotFoundError"]
    ELSE LET made == IF dir \notin DOMAIN files THEN Put(files, dir, EmptyDir) ELSE files
         IN IF Exists(made, dir, name)
            THEN [fs |-> made, raised |-> ""]
            ELSE [fs |-> WriteFile(made, dir, name, JpegFile(image)), raised |-> ""]

\* variant: a missing directory is always made
save_image_as_jpg_file_mkdir(files, dir, name, image, overwrite, mkdir) ==
    LET made == IF dir \notin DOMAIN files THEN Put(files, dir, EmptyDir) ELSE files
    IN IF Exists(made, dir, name) /\ ~overwrite
       THEN [fs |-> made, raised |-> ""]
       ELSE [fs |-> WriteFile(made, dir, name, JpegFile(image)), raised |-> ""]

\* save_image_as_jpg_file: the files after the call and the exception raised
save_image_as_jpg_file(files, dir, name, image, overwrite, mkdir) ==
    IF dir \notin DOMAIN files /\ ~mkdir
    THEN [fs |-> files, raised |-> "FileNotFoundError"]
    ELSE LET made == IF dir \notin DOMAIN files THEN Put(files, dir, EmptyDir) ELSE files
         IN IF Exists(made, dir, name) /\ ~overwrite
            THEN [fs |-> made, raised |-> ""]
            ELSE [fs |-> WriteFile(made, dir, name, JpegFile(image)), raised |-> ""]

\* ImageHandler.save_original_image
save_original_image(h, files, mkdir, overwrite) ==
    save_image_as_jpg_file(files, h.target_directory, StoredFileNames.original_image,
                           h.original_image, overwrite, mkdir)

\* ImageHandler.save_edited_image: nothing is written without an edited image
save_edited_image(h, files, mkdir, overwrite) ==
    IF IsNone(h.edited_image) THEN [fs |-> files, raised |-> ""]
    ELSE save_image_as_jpg_file(files, h.target_directory, StoredFileNames.edited_image,
                                Get(h.edited_image), overwrite, mkdir)

\* save_dataframe: each of the two files is written when missing or on overwrite
save_dataframe(files, dir, df, json_name, parquet_name, overwrite) ==
    IF dir \notin DOMAIN files
    THEN [fs |-> files, raised |-> "FileNotFoundError"]
    ELSE LET f1 == IF IsNone(files[dir][json_name]) \/ overwrite
                   THEN WriteFile(files, dir, json_name, <<"json", df>>) ELSE files
             f2 == IF IsNone(f1[dir][parquet_name]) \/ overwrite
                   THEN WriteFile(f1, dir, parquet_name, <<"parquet", df>>) ELSE f1
         IN [fs |-> f2, raised |-> ""]

\* ImageHandler.save_shop_info: the time column is nulled before writing
save_shop_info(h, files, overwrite) ==
    IF IsNone(h.extracted_receipt_info) THEN [fs |-> files, raised |-> ""]
    ELSE LET shop == convert_to_dataframe_shop(Get(h.extracted_receipt_info))
             nulled == << [shop[1] EXCEPT !.time = None] >>
         IN save_dataframe(files, h.target_directory, nulled,
                           StoredFileNames.shop_info_json,
                           StoredFileNames.shop_info_parquet, overwrite)

\* ImageHandler.save_items_info
save_items_info(h, files, overwrite) ==
    IF IsNone(h.extracted_receipt_info) THEN [fs |-> files, raised |-> ""]
    ELSE save_dataframe(files, h.target_directory,
                        convert_to_dataframe_items(Get(h.extracted_receipt_info)),
                        StoredFileNames.items_info_json,
                        StoredFileNames.items_info_parquet, overwrite)

\* ImageHandler.save_receipt_info
save_receipt_info(h, files, overwrite) ==
    LET a == save_shop_info(h, files, overwrite)
    IN IF a.raised # "" THEN a ELSE save_items_info(h, a.fs, overwrite)

\* ImageHandler.save
save(h, files, mkdir, overwrite) ==
    LET a == save_original_image(h, files, mkdir, overwrite)
        b == save_edited_image(h, a.fs, mkdir, overwrite)
    IN IF a.raised # "" THEN a
       ELSE IF b.raised # "" THEN b
       ELSE IF ~IsNone(h.extracted_receipt_info) THEN save_receipt_info(h, b.fs, overwrite)
       ELSE b

\* ImageHandler(...) with the defaults of the class
NewHandler(dir, image, bytes, file_name) ==
    [target_directory |-> dir, original_image |-> image, original_image_bytes |-> bytes,
     original_file_name |-> file_name, extracted_receipt_info |-> None,
     cropped |-> FALSE, rotated |-> FALSE, angle |-> 0, edited_image |-> None]

\* from_target_directory, for a directory that holds the original image
from_target_directory(files, dir) ==
    LET d == files[dir]
        original == Get(d[StoredFileNames.original_image])
        edited == d[StoredFileNames.edited_image]
        shop == d[StoredFileNames.shop_info_parquet]
        items == d[StoredFileNames.items_info_parquet]
    IN [NewHandler(dir, ImageOpenFile(original), original, StoredFileNames.original_image)
        EXCEPT !.edited_image = IF IsNone(edited) THEN None
                                ELSE Some(ImageOpenFile(Get(edited))),
               !.extracted_receipt_info =
                    IF ~IsNone(shop) /\ ~IsNone(items)
                    THEN Some(polars_info_dataframes_to_pydantic(Get(shop)[2], Get(items)[2]))
                    ELSE None]

\* variant: a new handler is made whether the directory is there or not
from_streamlit_uploaded_file_fresh(files, uploaded_file, stg) ==
    NewHandler(get_image_dir_name(stg, get_image_hash(uploaded_file.bytes),
                                  uploaded_file.name),
               ImageOpen(uploaded_file.bytes), uploaded_file.bytes, uploaded_file.name)

\* from_streamlit_uploaded_file: an existing target directory is loaded
from_streamlit_uploaded_file(files, uploaded_file, stg) ==
    LET dir == get_image_dir_name(stg, get_image_hash(uploaded_file.bytes),
                                  uploaded_file.name)
    IN IF dir \in DOMAIN files THEN from_target_directory(files, dir)
       ELSE NewHandler(dir, ImageOpen(uploaded_file.bytes), uploaded_file.bytes,
                       uploaded_file.name)

\* utils.cleanup: both directories of the account are removed and made again
\* variant: only the images are removed, the extracted data stay
cleanup_images(files, stg) ==
    [d \in DOMAIN files |->
        IF d[1] # _root_dir(Get(stg)) THEN files[d]
        ELSE [files[d] EXCEPT ![StoredFileNames.edited_image] = None]]

cleanup(files, stg) ==
    [d \in {x \in DOMAIN files : x[1] # _root_dir(Get(stg))} |-> files[d]]

\* get_collation_artifacts_dir of the settings, as a directory of the disk
CollationDir(stg) == <<_root_dir(Get(stg)), "collation">>

\* the receipt directories below get_extraction_artifacts_dir of the settings
ExtractionDirs(files, stg) ==
    {d \in DOMAIN files : Len(d) = 3 /\ d[1] = _root_dir(Get(stg))}

\* check_available_extraction_dirs: the directories that hold a shop-info
\* parquet file, and those that hold an items-info parquet file
check_available_extraction_dirs(files, stg) ==
    [shop_info_files |-> {d \in ExtractionDirs(files, stg) :
                             Exists(files, d, StoredFileNames.shop_info_parquet)},
     items_info_files |-> {d \in ExtractionDirs(files, stg) :
                              Exists(files, d, StoredFileNames.items_info_parquet)}]

\* compile_infos: the rows of every file, each with its directory as id column
compile_infos(files, info_files, name) ==
    {[target_directory |-> d, rows |-> Get(files[d][name])[2]] : d \in info_files}

\* utils.collect: both compiled tables are written to the collation directory
utils_collect(files, stg) ==
    LET found == check_available_extraction_dirs(files, stg)
        shop == compile_infos(files, found.shop_info_files,
                              StoredFileNames.shop_info_parquet)
        items == compile_infos(files, found.items_info_files,
                               StoredFileNames.items_info_parquet)
        made == IF CollationDir(stg) \in DOMAIN files THEN files
                ELSE Put(files, CollationDir(stg), EmptyDir)
    IN WriteFile(WriteFile(made, CollationDir(stg), StoredFileNames.shop_info_parquet,
                           <<"parquet", shop>>),
                 CollationDir(stg), StoredFileNames.items_info_parquet,
                 <<"parquet", items>>)

\* create_zipfile: every file below the extraction directory goes into the archive
create_zipfile(files, stg) ==
    <<"zip", [d \in ExtractionDirs(files, stg) |-> files[d]]>>

\* variant: a rotated image without data resumes at the crop step
identify_image_processing_state_resume(h) ==
    IF ~IsNone(h.extracted_receipt_info) THEN "wrangle"
    ELSE IF h.rotated THEN "crop" ELSE "rotate"

\* variant: a receipt whose data is on disk is taken to the save step
identify_image_processing_state_save(h) ==
    IF ~IsNone(h.extracted_receipt_info) THEN "save" ELSE "rotate"

\* identify_image_processing_state
identify_image_processing_state(h) ==
    IF ~IsNone(h.extracted_receipt_info) THEN "wrangle" ELSE "rotate"

----------------------------------------------------------------------------
(* app/main.py *)

Pages == {"do_login", "do_logout", "process_image", "collect_data"}

\* variant: every page is offered whether logged in or not
navigation_open(as) == Pages

\* main: the pages st.navigation offers to a session
navigation(as) ==
    IF as.is_logged_in THEN {"process_image", "collect_data", "do_logout"}
    ELSE {"do_login"}

\* the count of a record cannot grow past MaxCount inside one window
AttemptAllowed(username) ==
    (username \in DOMAIN attempts /\ now - attempts[username].last_time <= RATE_LIMIT_WINDOW)
        => attempts[username].count < MaxCount

\* variant: the username is not stored
login_succeeded_no_username(as, username) ==
    [as EXCEPT !.is_logged_in = TRUE, !.state = "upload"]

\* variant: the state is left as the login page found it
login_succeeded_stay(as, username) ==
    [as EXCEPT !.is_logged_in = TRUE, !.username = Some(username)]

\* the assignments of do_login after a successful credential check
login_succeeded(as, username) ==
    [as EXCEPT !.is_logged_in = TRUE, !.state = "upload", !.username = Some(username)]

\* variant: only the first session uses the table of the process, any other
\* session starts from a table of its own
rate_limiter_own(s) == IF s = "s1" THEN attempts ELSE <<>>

\* rate_limiter: the one RateLimiter of the process, whichever session calls
rate_limiter(s) == attempts

\* do_login with the form submitted; app_state is a local of do_login that only
\* the accepted branch assigns (st.rerun leaves from there), so every other run
\* ends in the closing `return app_state` with UnboundLocalError, after the
\* messages are shown
do_login(s, username, password) ==
    /\ s \in sessions
    /\ "do_login" \in navigation(app_state[s])
    /\ AttemptAllowed(username)
    /\ LET as0 == set_logging_in_state_if_not_logged_in(app_state[s])
           valid == UserIsValid(username, password)
           base == [Idle EXCEPT !.op = "do_login", !.session = s,
                                !.username = username, !.password = password,
                                !.message = IF valid THEN "" ELSE "Login failed"]
       IN IF IsNone(settings[s]) /\ ~SettingsValid(username)
          THEN \* Settings(...) raises FileExistsError out of init_settings
               /\ app_state' = [app_state EXCEPT ![s] = as0]
               /\ last' = [base EXCEPT !.raised = "FileExistsError"]
               /\ UNCHANGED <<attempts, settings>>
          ELSE /\ settings' = [settings EXCEPT ![s] = init_settings(@, username)]
               /\ IF ~valid
                  THEN /\ app_state' = [app_state EXCEPT ![s] = as0]
                       /\ last' = [base EXCEPT !.raised = "UnboundLocalError"]
                       /\ UNCHANGED attempts
                  ELSE LET r == check_is_legit_user(rate_limiter(s), username, password, now,
                                                    sqlite_present, postgres_present)
                       IN /\ attempts' = r.attempts
                          /\ last' = [base EXCEPT
                                 !.checked = TRUE, !.exceeded = r.exceeded,
                                 !.result = r.result, !.calls = r.calls,
                                 !.message = IF r.raised # "" THEN ""
                                             ELSE IF r.result THEN "Successfully logged in"
                                             ELSE "Login failed",
                                 !.raised = IF r.raised # "" THEN r.raised
                                            ELSE IF r.result THEN ""
                                            ELSE "UnboundLocalError"]
                          /\ app_state' = [app_state EXCEPT ![s] =
                                 IF r.result
                                 THEN login_succeeded(as0, username)
                                 ELSE as0]
    /\ UNCHANGED <<now, sqlite_present, postgres_present, roots, sessions, fs>>

\* do_logout with the button pressed
do_logout(s) ==
    /\ s \in sessions
    /\ "do_logout" \in navigation(app_state[s])
    /\ LET as0 == set_logging_in_state_if_not_logged_in(app_state[s])
       IN app_state' = [app_state EXCEPT ![s] =
                           [as0 EXCEPT !.is_logged_in = FALSE, !.state = "login"]]
    /\ last' = [Idle EXCEPT !.op = "do_logout", !.session = s, !.message = "Logging out"]
    /\ UNCHANGED <<now, attempts, sqlite_present, postgres_present, roots, sessions,
                   settings, fs>>

\* the clock advances
Tick(d) ==
    /\ now + d <= MaxTime
    /\ now' = now + d
    /\ last' = [Idle EXCEPT !.op = "tick"]
    /\ UNCHANGED <<attempts, sqlite_present, postgres_present, roots, sessions,
                   app_state, settings, fs>>

\* rate_limiter.check_limit_exceeded(username) called on its own
check_limit_exceeded_call(username) ==
    /\ AttemptAllowed(username)
    /\ LET r == check_limit_exceeded(attempts, username, now)
       IN /\ attempts' = r.attempts
          /\ last' = [Idle EXCEPT !.op = "check_limit_exceeded",
                                  !.username = username, !.exceeded = r.exceeded]
    /\ UNCHANGED <<now, sqlite_present, postgres_present, roots, sessions,
                   app_state, settings, fs>>

----------------------------------------------------------------------------
(* app/tools/process_image.py and app/tools/collect_data.py *)
(* A handler changes app_state.image_handler and app_state.state in place, *)
(* so what it assigned before an exception stays assigned.                 *)

\* the process page is run for a logged-in session whose state is st
PageRuns(s, st) ==
    /\ s \in sessions
    /\ "process_image" \in navigation(app_state[s])
    /\ set_logging_in_state_if_not_logged_in(app_state[s]).state = st

Ran(op, s) == [Idle EXCEPT !.op = op, !.session = s]

Raised(op, s, exc) == [Idle EXCEPT !.op = op, !.session = s, !.raised = exc]

WizardFrame == UNCHANGED <<now, attempts, sqlite_present, postgres_present, roots,
                           sessions, settings>>

\* variant: the step returns without raising
handler_missing_silent(op, s) ==
    /\ last' = Ran(op, s)
    /\ UNCHANGED <<app_state, fs>>

\* "if app_state.image_handler is None: raise ValueError(msg)" and its like
handler_missing(op, s) ==
    /\ last' = Raised(op, s, "ValueError")
    /\ UNCHANGED <<app_state, fs>>

\* do_upload_image with a file chosen and Continue pressed
do_upload_image(s, uploaded_file) ==
    /\ PageRuns(s, "upload")
    /\ LET dir == get_image_dir_name(settings[s], get_image_hash(uploaded_file.bytes),
                                     uploaded_file.name)
           run(exc) == [Raised("do_upload_image", s, exc) EXCEPT
                           !.file = Some(uploaded_file)]
       IN IF dir \in DOMAIN fs /\ IsNone(fs[dir][StoredFileNames.original_image])
          THEN /\ last' = run("FileNotFoundError")
               /\ UNCHANGED <<app_state, fs>>
          ELSE LET receipt_handler == from_streamlit_uploaded_file(fs, uploaded_file,
                                                                   settings[s])
                   saved == save(receipt_handler, fs, TRUE, FALSE)
               IN /\ fs' = saved.fs
                  /\ last' = run(saved.raised)
                  /\ IF saved.raised # ""
                     THEN UNCHANGED app_state
                     ELSE /\ app_state' = [app_state EXCEPT ![s] =
                                [@ EXCEPT !.image_handler = Some(receipt_handler),
                                          !.state = identify_image_processing_state(
                                                        receipt_handler)]]
    /\ WizardFrame

\* do_rotate, with Continue pressed when the handler is there
do_rotate(s, degrees) ==
    /\ PageRuns(s, "rotate")
    /\ IF IsNone(app_state[s].image_handler)
       THEN handler_missing("do_rotate", s)
       ELSE LET h0 == Get(app_state[s].image_handler)
                h == [h0 EXCEPT !.angle = degrees, !.rotated = TRUE,
                                !.edited_image =
                                    Some(Rotate(h0.original_image, 360 - degrees))]
                saved == save_edited_image(h, fs, FALSE, TRUE)
            IN /\ app_state' = [app_state EXCEPT ![s] =
                      [@ EXCEPT !.image_handler = Some(h), !.state = "crop"]]
               /\ fs' = saved.fs
               /\ last' = Raised("do_rotate", s, saved.raised)
    /\ WizardFrame

\* do_crop, with Continue pressed when the edited image is there
do_crop(s, box) ==
    /\ PageRuns(s, "crop")
    /\ IF IsNone(app_state[s].image_handler)
       THEN handler_missing("do_crop", s)
       ELSE IF IsNone(Get(app_state[s].image_handler).edited_image)
       THEN /\ last' = Raised("do_crop", s, "AttributeError")
            /\ UNCHANGED <<app_state, fs>>
       ELSE LET h0 == Get(app_state[s].image_handler)
                h == [h0 EXCEPT !.cropped = TRUE,
                                !.edited_image = Some(Crop(Get(h0.edited_image), box))]
                saved == save_edited_image(h, fs, FALSE, TRUE)
            IN /\ app_state' = [app_state EXCEPT ![s] =
                      [@ EXCEPT !.image_handler = Some(h), !.state = "extract"]]
               /\ fs' = saved.fs
               /\ last' = Raised("do_crop", s, saved.raised)
    /\ WizardFrame

\* variant: a failed request is passed over and the wizard goes on
do_extract_onward(s, failed, receipt) ==
    /\ PageRuns(s, "extract")
    /\ IF IsNone(app_state[s].image_handler)
       THEN handler_missing("do_extract", s)
       ELSE LET h0 == Get(app_state[s].image_handler)
                h == [h0 EXCEPT !.extracted_receipt_info = Some(receipt)]
                saved == save_receipt_info(h, fs, TRUE)
            IN IF ~Exists(fs, h0.target_directory, StoredFileNames.edited_image)
               THEN /\ last' = Raised("do_extract", s, "FileNotFoundError")
                    /\ UNCHANGED <<app_state, fs>>
               ELSE IF failed
               THEN /\ last' = [Raised("do_extract", s, "APIError")
                                EXCEPT !.calls = <<"make_anthropic_request">>]
                    /\ app_state' = [app_state EXCEPT ![s] = [@ EXCEPT !.state = "wrangle"]]
                    /\ UNCHANGED fs
               ELSE /\ fs' = saved.fs
                    /\ last' = [Raised("do_extract", s, saved.raised)
                                EXCEPT !.calls = <<"make_anthropic_request">>]
                    /\ app_state' = [app_state EXCEPT ![s] =
                          [@ EXCEPT !.image_handler = Some(h),
                                    !.state = IF saved.raised = "" THEN "wrangle"
                                              ELSE @]]
    /\ WizardFrame

\* do_extract: the request fails (failed) or returns a receipt
do_extract(s, failed, receipt) ==
    /\ PageRuns(s, "extract")
    /\ IF IsNone(app_state[s].image_handler)
       THEN handler_missing("do_extract", s)
       ELSE LET h0 == Get(app_state[s].image_handler)
                h == [h0 EXCEPT !.extracted_receipt_info = Some(receipt)]
                saved == save_receipt_info(h, fs, TRUE)
            IN IF ~Exists(fs, h0.target_directory, StoredFileNames.edited_image)
               THEN \* edited_image_base64 reads the file
                    /\ last' = Raised("do_extract", s, "FileNotFoundError")
                    /\ UNCHANGED <<app_state, fs>>
               ELSE IF failed
               THEN /\ last' = [Raised("do_extract", s, "APIError")
                                EXCEPT !.calls = <<"make_anthropic_request">>]
                    /\ UNCHANGED <<app_state, fs>>
               ELSE /\ fs' = saved.fs
                    /\ last' = [Raised("do_extract", s, saved.raised)
                                EXCEPT !.calls = <<"make_anthropic_request">>]
                    /\ app_state' = [app_state EXCEPT ![s] =
                          [@ EXCEPT !.image_handler = Some(h),
                                    !.state = IF saved.raised = "" THEN "wrangle"
                                              ELSE @]]
    /\ WizardFrame

\* the receipts the data editors can hold: the rows shown, cells edited
Editable(receipt) == {r \in Receipts : Len(r.items) = Len(receipt.items)}

\* do_wrangle, with Continue pressed when handler, image and data are there
do_wrangle(s, edited) ==
    /\ PageRuns(s, "wrangle")
    /\ IF \/ IsNone(app_state[s].image_handler)
          \/ IsNone(Get(app_state[s].image_handler).edited_image)
          \/ IsNone(Get(app_state[s].image_handler).extracted_receipt_info)
       THEN handler_missing("do_wrangle", s)
       ELSE LET h0 == Get(app_state[s].image_handler)
                h == [h0 EXCEPT !.extracted_receipt_info =
                         Some(polars_info_dataframes_to_pydantic(
                                  convert_to_dataframe_shop(edited),
                                  convert_to_dataframe_items(edited)))]
                saved == save_receipt_info(h, fs, FALSE)
            IN /\ edited \in Editable(Get(h0.extracted_receipt_info))
               /\ fs' = saved.fs
               /\ last' = Raised("do_wrangle", s, saved.raised)
               /\ app_state' = [app_state EXCEPT ![s] =
                     [@ EXCEPT !.image_handler = Some(h),
                               !.state = IF saved.raised = "" THEN "done" ELSE @]]
    /\ WizardFrame

\* variant: the wizard goes on to the save step
do_done_save(s) ==
    /\ PageRuns(s, "done")
    /\ app_state' = [app_state EXCEPT ![s] = [@ EXCEPT !.state = "save"]]
    /\ last' = Ran("do_done", s)
    /\ UNCHANGED fs
    /\ WizardFrame

\* variant: the finished receipt's handler is dropped
do_done_detach(s) ==
    /\ PageRuns(s, "done")
    /\ app_state' = [app_state EXCEPT ![s] = [@ EXCEPT !.state = "upload",
                                                       !.image_handler = None]]
    /\ last' = Ran("do_done", s)
    /\ UNCHANGED fs
    /\ WizardFrame

\* do_done
do_done(s) ==
    /\ PageRuns(s, "done")
    /\ app_state' = [app_state EXCEPT ![s] = [@ EXCEPT !.state = "upload"]]
    /\ last' = Ran("do_done", s)
    /\ UNCHANGED fs
    /\ WizardFrame

\* variant: deleting the history also detaches the session's handler
delete_history_detach(s) ==
    /\ s \in sessions
    /\ "collect_data" \in navigation(app_state[s])
    /\ IF IsNone(settings[s])
       THEN /\ last' = Raised("delete_history", s, "KeyError")
            /\ UNCHANGED <<fs, app_state>>
       ELSE /\ fs' = cleanup(fs, settings[s])
            /\ app_state' = [app_state EXCEPT ![s] = [@ EXCEPT !.image_handler = None]]
            /\ last' = [Ran("delete_history", s) EXCEPT !.message = "Done deleting history"]
    /\ WizardFrame

\* the collect page with "Delete history" pressed
delete_history(s) ==
    /\ s \in sessions
    /\ "collect_data" \in navigation(app_state[s])
    /\ IF IsNone(settings[s])
       THEN \* get_settings raises the KeyError of st.session_state
            /\ last' = Raised("delete_history", s, "KeyError")
            /\ UNCHANGED fs
       ELSE /\ fs' = cleanup(fs, settings[s])
            /\ last' = [Ran("delete_history", s) EXCEPT !.message = "Done deleting history"]
    /\ UNCHANGED app_state
    /\ WizardFrame

CollectPageRuns(s) ==
    /\ s \in sessions
    /\ "collect_data" \in navigation(app_state[s])
    /\ ~IsNone(settings[s])

\* variant: an error is shown as soon as one of the two lists is empty
collect_strict(s) ==
    /\ CollectPageRuns(s)
    /\ LET found == check_available_extraction_dirs(fs, settings[s])
       IN IF found.shop_info_files # {} /\ found.items_info_files # {}
          THEN /\ fs' = utils_collect(fs, settings[s])
               /\ last' = [Ran("collect", s) EXCEPT !.message = "Done collecting"]
          ELSE /\ last' = [Ran("collect", s) EXCEPT !.message =
                     "No shop and item files present, cannot collect. Parse some images first."]
               /\ UNCHANGED fs
    /\ UNCHANGED app_state
    /\ WizardFrame

\* the collect page with "Run collection" pressed: collect(...), then
\* compress(False, settings)
collect(s) ==
    /\ CollectPageRuns(s)
    /\ LET found == check_available_extraction_dirs(fs, settings[s])
       IN IF found.shop_info_files # {} /\ found.items_info_files # {}
          THEN /\ fs' = utils_collect(fs, settings[s])
               /\ last' = [Ran("collect", s) EXCEPT !.message = "Done collecting"]
          ELSE IF found.shop_info_files = {} /\ found.items_info_files = {}
          THEN /\ last' = [Ran("collect", s) EXCEPT !.message =
                     "No shop and item files present, cannot collect. Parse some images first."]
               /\ UNCHANGED fs
          ELSE /\ last' = Ran("collect", s)
               /\ UNCHANGED fs
    /\ UNCHANGED app_state
    /\ WizardFrame

\* variant: the archive is made whether a compiled table is there or not
compress_always(s) ==
    /\ CollectPageRuns(s)
    /\ last' = [Ran("compress", s) EXCEPT
                   !.message = "Zip file extractions.zip created",
                   !.archive = create_zipfile(fs, settings[s])]
    /\ UNCHANGED <<app_state, fs>>
    /\ WizardFrame

\* the collect page with "Create zip-file" pressed: compress(True, settings)
compress(s) ==
    /\ CollectPageRuns(s)
    /\ IF \/ Exists(fs, CollationDir(settings[s]), StoredFileNames.shop_info_parquet)
          \/ Exists(fs, CollationDir(settings[s]), StoredFileNames.items_info_parquet)
       THEN last' = [Ran("compress", s) EXCEPT
                        !.message = "Zip file extractions.zip created",
                        !.archive = create_zipfile(fs, settings[s])]
       ELSE last' = [Ran("compress", s) EXCEPT !.message =
              "Could not create zip file extractions.zip because no shop or items info present.",
                        !.archive = <<>>]
    /\ UNCHANGED <<app_state, fs>>
    /\ WizardFrame

\* identify_image_processing_state called on the handler of the session
identify_call(s) ==
    /\ s \in sessions
    /\ ~IsNone(app_state[s].image_handler)
    /\ last' = [Ran("identify_image_processing_state", s) EXCEPT
                   !.returned = identify_image_processing_state(
                                    Get(app_state[s].image_handler))]
    /\ UNCHANGED <<app_state, fs>>
    /\ WizardFrame

\* save_image_as_jpg_file called on the disk with a PIL image
save_image_call(dir, name, image, overwrite, mkdir) ==
    /\ LET r == save_image_as_jpg_file(fs, dir, name, image, overwrite, mkdir)
       IN /\ fs' = r.fs
          /\ last' = [Idle EXCEPT !.op = "save_image_as_jpg_file", !.raised = r.raised,
                                  !.args = Some([dir |-> dir, name |-> name,
                                                 image |-> image, overwrite |-> overwrite,
                                                 mkdir |-> mkdir])]
    /\ UNCHANGED app_state
    /\ WizardFrame

----------------------------------------------------------------------------
(* Specifications *)

RootChoices == {{"", "og"}, {"", "og", "al"}}

InitCommon ==
    /\ now = 0
    /\ attempts = <<>>
    /\ sqlite_present \in BOOLEAN
    /\ postgres_present \in BOOLEAN
    /\ roots \in RootChoices
    /\ app_state = [s \in AllSessions |-> NewAppState]
    /\ settings = [s \in AllSessions |-> None]
    /\ fs = <<>>
    /\ last = Idle

\* one browser session, the login pages and the clock
InitAuth == InitCommon /\ sessions = {"s1"}

LoginWith(usernames, passwords) ==
    \E s \in AllSessions, u \in usernames, p \in passwords : do_login(s, u, p)

Login == LoginWith(UsernameInputs, PasswordInputs)

Logout == \E s \in AllSessions : do_logout(s)

Clock == \E d \in TimeSteps : Tick(d)

NextAuth == Login \/ Logout \/ Clock

SpecAuth == InitAuth /\ [][NextAuth]_vars

\* one browser session, every page; the clock jumps past the rate window
InitWizard ==
    /\ InitCommon
    /\ sessions = {"s1"}
    /\ sqlite_present /\ ~postgres_present
    /\ roots = {"", "og"}

\* the logins tried on the way into the wizard: og or no name, password right or wrong
WizardLogin == LoginWith({"", "og"}, {"pw_og", "pw_al"})

Upload == \E s \in AllSessions, f \in Uploads : do_upload_image(s, f)

RotateStep == \E s \in AllSessions, d \in Degrees : do_rotate(s, d)

CropStep == \E s \in AllSessions, b \in Boxes : do_crop(s, b)

Extract == \E s \in AllSessions, failed \in BOOLEAN, r \in Receipts : do_extract(s, failed, r)

Wrangle == \E s \in AllSessions, r \in Receipts : do_wrangle(s, r)

Done == \E s \in AllSessions : do_done(s)

DeleteHistory == \E s \in AllSessions : delete_history(s)

Collect == \E s \in AllSessions : collect(s)

Compress == \E s \in AllSessions : compress(s)

NextWizard ==
    \/ WizardLogin \/ Logout \/ Tick(RATE_LIMIT_WINDOW + 1)
    \/ Upload \/ RotateStep \/ CropStep \/ Extract \/ Wrangle \/ Done \/ DeleteHistory

SpecWizard == InitWizard /\ [][NextWizard]_vars

\* the steps of the wizard run on any AppState of a logged-in session
UnitHandlersOf(u) ==
    { [NewHandler(get_image_dir_name(Some("og"), get_image_hash(u.bytes), u.name),
                  ImageOpen(u.bytes), u.bytes, u.name)
       EXCEPT !.extracted_receipt_info = e, !.cropped = c, !.rotated = r,
              !.angle = a, !.edited_image = ed] :
      e \in {None} \cup {Some(x) : x \in Receipts},
      c \in BOOLEAN, r \in BOOLEAN, a \in Degrees,
      ed \in {None, Some(Rotate(ImageOpen(u.bytes), 270)),
                    Some(Crop(ImageOpen(u.bytes), "box"))} }

UnitHandlers == UNION {UnitHandlersOf(u) : u \in Uploads}

UnitAppStates ==
    [state : States \ {"login", "save"}, is_logged_in : {TRUE},
     image_handler : {None} \cup {Some(h) : h \in UnitHandlers},
     username : {Some("og")}]

InitUnit ==
    /\ now = 0
    /\ attempts = <<>>
    /\ sqlite_present = TRUE
    /\ postgres_present = FALSE
    /\ roots = {"", "og"}
    /\ sessions = {"s1"}
    /\ settings = [s \in AllSessions |-> IF s = "s1" THEN Some("og") ELSE None]
    /\ \E a \in UnitAppStates :
          /\ app_state = [s \in AllSessions |-> IF s = "s1" THEN a ELSE NewAppState]
          /\ fs \in {<<>>} \cup {save(Get(h), <<>>, TRUE, TRUE).fs :
                                  h \in {a.image_handler} \ {None}}
    /\ last = Idle

Identify == \E s \in AllSessions : identify_call(s)

NextUnit ==
    Upload \/ RotateStep \/ CropStep \/ Extract \/ Wrangle \/ Done \/ Identify

SpecUnit == InitUnit /\ [][NextUnit]_vars

\* two browser sessions of one server: the login pages, the first step of the
\* wizard and the collect page
InitGate ==
    /\ InitCommon
    /\ sessions = AllSessions
    /\ sqlite_present /\ ~postgres_present
    /\ roots = {"", "og"}

GateLogin == LoginWith({"og"}, {"pw_og", "pw_al"})

NextGate ==
    \/ GateLogin \/ Logout \/ Tick(RATE_LIMIT_WINDOW + 1)
    \/ Upload \/ RotateStep \/ DeleteHistory \/ Collect \/ Compress

SpecGate == InitGate /\ [][NextGate]_vars

\* two browser sessions of one server at the login pages, two usernames
SharedLogin == LoginWith({"og", "al"}, {"pw_og", "pw_al"})

NextShared == SharedLogin \/ Logout \/ Clock

SpecShared == InitGate /\ [][NextShared]_vars

\* the collect page of og over what the data directory can hold: per receipt
\* the original image alone, a finished extraction, or the shop files without
\* the items files (save_receipt_info writes shop first and was interrupted)
CollectHandler(u, e) ==
    [NewHandler(get_image_dir_name(Some("og"), get_image_hash(u.bytes), u.name),
                ImageOpen(u.bytes), u.bytes, u.name)
     EXCEPT !.extracted_receipt_info = e]

CollectContents(u) ==
    {save(CollectHandler(u, e), <<>>, TRUE, TRUE).fs :
        e \in {None} \cup {Some(r) : r \in Receipts}}
    \cup {save_shop_info(CollectHandler(u, Some(r)),
                         save(CollectHandler(u, None), <<>>, TRUE, TRUE).fs, TRUE).fs :
              r \in Receipts}

CollectUploads == {u \in Uploads : u.name = "a.jpg"}

\* the union of two disks that hold different directories
Merge(f, g) == [d \in DOMAIN f \cup DOMAIN g |-> IF d \in DOMAIN f THEN f[d] ELSE g[d]]

RECURSIVE CollectDisks(_)
CollectDisks(us) ==
    IF us = {} THEN {<<>>}
    ELSE LET u == CHOOSE x \in us : TRUE
         IN {Merge(f, g) : f \in {<<>>} \cup CollectContents(u),
                           g \in CollectDisks(us \ {u})}

InitCollect ==
    /\ now = 0
    /\ attempts = <<>>
    /\ sqlite_present = TRUE
    /\ postgres_present = FALSE
    /\ roots = {"", "og"}
    /\ sessions = {"s1"}
    /\ settings = [s \in AllSessions |-> IF s = "s1" THEN Some("og") ELSE None]
    /\ app_state = [s \in AllSessions |->
                       IF s = "s1" THEN login_succeeded(NewAppState, "og")
                       ELSE NewAppState]
    /\ fs \in CollectDisks(CollectUploads)
    /\ last = Idle

NextCollect == Collect \/ Compress \/ DeleteHistory

SpecCollect == InitCollect /\ [][NextCollect]_vars

\* the wizard of one logged-in session on an empty data directory: the user
\* presses Continue on every step that waits for it, do_extract and do_done
\* run by themselves after st.rerun, and a request that is made again and
\* again succeeds in the end
InitProgress ==
    /\ now = 0
    /\ attempts = <<>>
    /\ sqlite_present = TRUE
    /\ postgres_present = FALSE
    /\ roots = {"", "og"}
    /\ sessions = {"s1"}
    /\ settings = [s \in AllSessions |-> IF s = "s1" THEN Some("og") ELSE None]
    /\ app_state = [s \in AllSessions |->
                       IF s = "s1" THEN login_succeeded(NewAppState, "og")
                       ELSE NewAppState]
    /\ fs = <<>>
    /\ last = Idle

ExtractOk == \E s \in AllSessions, r \in Receipts : do_extract(s, FALSE, r)

ExtractFails == \E s \in AllSessions, r \in Receipts : do_extract(s, TRUE, r)

NextProgress ==
    Upload \/ RotateStep \/ CropStep \/ ExtractOk \/ ExtractFails \/ Wrangle \/ Done

\* the step the page of a receipt under way waits for, the request succeeding
Advance == RotateStep \/ CropStep \/ ExtractOk \/ Wrangle \/ Done

SpecProgress == InitProgress /\ [][NextProgress]_vars /\ WF_vars(Advance)

\* save_image_as_jpg_file on its own, over the receipt directories of og
SaveDirs ==
    {get_image_dir_name(Some("og"), get_image_hash(u.bytes), u.name) : u \in CollectUploads}

SaveNames == {StoredFileNames.original_image, StoredFileNames.edited_image}

SaveImages ==
    {ImageOpen(<<"raw", "B1">>), Rotate(ImageOpen(<<"raw", "B1">>), 270)}

InitSave ==
    /\ now = 0
    /\ attempts = <<>>
    /\ sqlite_present = TRUE
    /\ postgres_present = FALSE
    /\ roots = {"", "og"}
    /\ sessions = {"s1"}
    /\ settings = [s \in AllSessions |-> IF s = "s1" THEN Some("og") ELSE None]
    /\ app_state = [s \in AllSessions |->
                       IF s = "s1" THEN login_succeeded(NewAppState, "og")
                       ELSE NewAppState]
    /\ fs \in CollectDisks(CollectUploads)
    /\ last = Idle

SaveImage ==
    \E dir \in SaveDirs, name \in SaveNames, image \in SaveImages,
       overwrite \in BOOLEAN, mkdir \in BOOLEAN :
        save_image_call(dir, name, image, overwrite, mkdir)

NextSave == SaveImage \/ DeleteHistory

SpecSave == InitSave /\ [][NextSave]_vars

\* the rate limiter on its own: any table of records about a minute old
LimiterUsers == {"og", "al"}

LimiterRecords == [count : 1..MaxCount, last_time : {0, 1}]

LimiterTables ==
    UNION {[d -> LimiterRecords] : d \in {{"og"}, {"og", "al"}}}

InitLimiter ==
    /\ now = RATE_LIMIT_WINDOW - 1
    /\ attempts \in LimiterTables
    /\ sqlite_present = TRUE
    /\ postgres_present = FALSE
    /\ roots = {"", "og"}
    /\ sessions = {"s1"}
    /\ app_state = [s \in AllSessions |-> NewAppState]
    /\ settings = [s \in AllSessions |-> None]
    /\ fs = <<>>
    /\ last = Idle

CheckLimit == \E u \in LimiterUsers : check_limit_exceeded_call(u)

NextLimiter == CheckLimit \/ Tick(1)

SpecLimiter == InitLimiter /\ [][NextLimiter]_vars

----------------------------------------------------------------------------
(* Properties of the rate limiter and the credential check *)

\* a step that is a submitted login form which reached check_is_legit_user
CheckedLogin == last'.op = "do_login" /\ last'.checked

InWindow(username) ==
    username \in DOMAIN attempts /\ now - attempts[username].last_time <= RATE_LIMIT_WINDOW

\* the hashes a table of rows holds for a username
StoredHashes(rows, username) ==
    {rows[i][2] : i \in {j \in DOMAIN rows : rows[j][1] = username}}

\* C1: check_limit_exceeded increments first and then answers true exactly when
\* the count is greater than RATE_LIMIT_COUNT: a first attempt creates count=1
\* and is not limited, a second attempt inside the window is limited and the
\* login is rejected whatever the password.
C1_LimitAfterIncrement ==
    [][CheckedLogin =>
        LET u == last'.username IN
        /\ u \in DOMAIN attempts'
        /\ last'.exceeded <=> attempts'[u].count > RATE_LIMIT_COUNT
        /\ u \notin DOMAIN attempts => (attempts'[u].count = 1 /\ ~last'.exceeded)
        /\ InWindow(u) => (last'.exceeded /\ ~last'.result)]_vars

\* C1 witness: a second attempt with the right password is limited
C1_Witness ==
    /\ last.op = "do_login" /\ last.exceeded /\ ~last.result
    /\ last.username = "og" /\ last.password = "pw_og"
    /\ attempts["og"].count = 2

\* C2: check_is_legit_user is true iff the limit is not exceeded by this call, a
\* backend is available and the hash stored for the username in the selected
\* backend is non-empty and verifies against the submitted password.
C2_LegitIff ==
    [][CheckedLogin =>
        LET u == last'.username
            p == last'.password
            rows == IF sqlite_present THEN SqliteRows ELSE PostgresRows
        IN last'.result <=>
              /\ attempts'[u].count <= RATE_LIMIT_COUNT
              /\ sqlite_present \/ postgres_present
              /\ \E h \in StoredHashes(rows, u) : h # <<>> /\ h[3] = p]_vars

\* C2 witness: an accepted login through the remote store
C2_Witness ==
    /\ last.op = "do_login" /\ last.checked /\ last.result
    /\ ~sqlite_present /\ postgres_present /\ last.username = "al"

\* C6 (as claimed): an attempt inside the window increments the count and sets
\* last_time to now, so the window slides with every attempt.
C6_WindowSlides ==
    [][(CheckedLogin /\ InWindow(last'.username)) =>
        LET u == last'.username IN
        /\ attempts'[u].count = attempts[u].count + 1
        /\ attempts'[u].last_time = now]_vars

\* C8: an accepted login sets is_logged_in, state=upload and the username; a
\* rejected submission leaves the AppState unchanged.
C8_LoginEffect ==
    [][last'.op = "do_login" =>
        LET s == last'.session IN
        /\ \A o \in AllSessions \ {s} : app_state'[o] = app_state[o]
        /\ IF last'.checked /\ last'.result
           THEN /\ app_state[s].state = "login"
                /\ app_state'[s] = [state |-> "upload", is_logged_in |-> TRUE,
                                    image_handler |-> app_state[s].image_handler,
                                    username |-> Some(last'.username)]
           ELSE app_state'[s] = app_state[s]]_vars

\* C8 witness: og is logged in by the submission just made
C8_Witness ==
    /\ last.op = "do_login" /\ last.result /\ last.username = "og"
    /\ app_state["s1"].is_logged_in /\ app_state["s1"].state = "upload"

\* C9: a submission with an empty username or password shows "Login failed"
\* without reaching check_is_legit_user: no backend call, the rate limiter's
\* table unchanged, the session still in login.
C9_EmptyFieldRejected ==
    [][(last'.op = "do_login" /\ (last'.username = "" \/ last'.password = "")) =>
        /\ last'.message = "Login failed"
        /\ ~last'.checked
        /\ last'.calls = <<>>
        /\ attempts' = attempts
        /\ app_state'[last'.session].state = "login"
        /\ ~app_state'[last'.session].is_logged_in]_vars

\* C9 witness: a known username with an empty password was submitted
C9_Witness ==
    /\ last.op = "do_login" /\ last.username = "og" /\ last.password = ""
    /\ last.message = "Login failed" /\ ~last.checked /\ last.calls = <<>>

\* C10: every call of check_is_legit_user increments the record of the username
\* once, accepted or rejected, and leaves the other records alone; an accepted
\* login keeps the record, so a further login inside the window is rejected.
C10_EveryCallCounts ==
    [][CheckedLogin =>
        LET u == last'.username IN
        /\ DOMAIN attempts' = DOMAIN attempts \cup {u}
        /\ \A o \in DOMAIN attempts \ {u} : attempts'[o] = attempts[o]
        /\ attempts'[u].count = IF InWindow(u) THEN attempts[u].count + 1 ELSE 1
        /\ last'.result => attempts'[u] = [count |-> 1, last_time |-> now']
        /\ InWindow(u) => ~last'.result]_vars

\* C10 witness: og logged in before in this session and is now rejected with the
\* right password inside the window
C10_Witness ==
    /\ last.op = "do_login" /\ last.exceeded /\ ~last.result
    /\ last.username = "og" /\ last.password = "pw_og"
    /\ app_state["s1"].username = Some("og")
    /\ now <= RATE_LIMIT_WINDOW

\* the exceptions a connection attempt of a probe can end in
ProbeErrors == {sqlite_connect(FALSE), psycopg_connect(FALSE)}

Called(calls, name) == \E i \in DOMAIN calls : calls[i] = name

\* C11: with both stores unavailable check_is_legit_user is false for every
\* username and password, and the connection failure met while probing does not
\* leave the call as an exception: the run shows "Login failed".
C11_NoBackendRejects ==
    [][(CheckedLogin /\ ~sqlite_present /\ ~postgres_present) =>
        /\ ~last'.result
        /\ last'.raised \notin ProbeErrors
        /\ last'.message = "Login failed"
        /\ ~app_state'[last'.session].is_logged_in
        /\ ~Called(last'.calls, "bcrypt.checkpw")]_vars

\* C11 witness: the right password for og, both probes made, no store found
C11_Witness ==
    /\ last.op = "do_login" /\ last.checked /\ ~last.exceeded /\ ~last.result
    /\ ~sqlite_present /\ ~postgres_present
    /\ last.username = "og" /\ last.password = "pw_og"
    /\ last.calls = <<"check_sqlite_db_present", "check_postgresql_db_present">>

\* C12: the local store is probed first and the remote store second; the hash
\* comes from the first store found only: the remote store is probed and
\* queried only when the local one is unavailable, and a username without a
\* row in an available local store is rejected without the remote store.
C12_LocalFirst ==
    [][(CheckedLogin /\ ~last'.exceeded) =>
        LET c == last'.calls
            u == last'.username
        IN /\ Len(c) >= 1 /\ c[1] = "check_sqlite_db_present"
           /\ sqlite_present =>
                 /\ ~Called(c, "check_postgresql_db_present")
                 /\ ~Called(c, "get_user_password_in_postgresql_db")
                 /\ c[2] = "get_user_password_in_sqlite_db"
                 /\ StoredHashes(SqliteRows, u) = {} => ~last'.result
           /\ ~sqlite_present =>
                 /\ c[2] = "check_postgresql_db_present"
                 /\ ~Called(c, "get_user_password_in_sqlite_db")
                 /\ Called(c, "get_user_password_in_postgresql_db") <=> postgres_present]_vars

\* C12 witness: al, known to the remote store only, is rejected by the local one
C12_Witness ==
    /\ last.op = "do_login" /\ last.checked /\ ~last.exceeded /\ ~last.result
    /\ sqlite_present /\ postgres_present
    /\ last.username = "al" /\ last.password = "pw_al"
    /\ last.calls = <<"check_sqlite_db_present", "get_user_password_in_sqlite_db">>

\* C20: increment resets an existing record to {count=1, last_time=now} exactly
\* when more than 60 seconds have passed since last_time; at 60 seconds or less
\* the count goes up. So a record with count=RATE_LIMIT_COUNT is not limited
\* when it is 61 s old and is limited when it is 59 s old.
C20_ResetAfterWindow ==
    [][(last'.op = "check_limit_exceeded" /\ last'.username \in DOMAIN attempts) =>
        LET u == last'.username
            a == attempts[u]
            age == now - a.last_time
        IN /\ (attempts'[u] = [count |-> 1, last_time |-> now]) <=> (age > RATE_LIMIT_WINDOW)
           /\ age <= RATE_LIMIT_WINDOW => attempts'[u].count = a.count + 1
           /\ (a.count = RATE_LIMIT_COUNT /\ age = RATE_LIMIT_WINDOW + 1) => ~last'.exceeded
           /\ (a.count = RATE_LIMIT_COUNT /\ age = RATE_LIMIT_WINDOW - 1) => last'.exceeded]_vars

\* C20 witness: the record of og, there from the start, was reset 61 s after
\* its last_time of 0
C20_Witness ==
    /\ last.op = "check_limit_exceeded" /\ last.username = "og" /\ ~last.exceeded
    /\ now = RATE_LIMIT_WINDOW + 1
    /\ attempts["og"] = [count |-> 1, last_time |-> now]

----------------------------------------------------------------------------
(* Properties of the sessions *)

\* the runs of the pages behind the login
GatedOps == {"do_upload_image", "do_rotate", "do_crop", "do_extract", "do_wrangle",
             "do_done", "delete_history", "collect", "compress", "do_logout"}

\* C13: in a session that is not logged in only the login page runs: no step
\* of the wizard, no collection, export or delete-history; and is_logged_in
\* becomes true only by a check_is_legit_user call of that session that
\* returned true.
C13_LoginGatesWizard ==
    [][/\ last'.op \in GatedOps => app_state[last'.session].is_logged_in
       /\ \A s \in AllSessions :
             /\ (~app_state[s].is_logged_in /\ last'.session = s) =>
                    (last'.op = "do_login" /\ fs' = fs)
             /\ (~app_state[s].is_logged_in /\ app_state'[s].is_logged_in) =>
                    /\ last'.op = "do_login" /\ last'.session = s
                    /\ last'.checked /\ last'.result]_vars

\* C13 witness: s1 works in the wizard while s2 is still at the login page
C13_Witness ==
    /\ last.op = "do_rotate" /\ last.session = "s1"
    /\ app_state["s1"].is_logged_in /\ app_state["s1"].state = "crop"
    /\ ~app_state["s2"].is_logged_in /\ app_state["s2"].state = "login"
    /\ ~IsNone(settings["s2"])

\* the failures a failed login could tell apart by the error it ends in
RevealingErrors == ProbeErrors \cup {"FileExistsError", "ValueError", "KeyError"}

\* C18 (as claimed): every failed login, whatever the case, shows "Login
\* failed", leaves the session in login and ends in no error that tells the
\* cases apart.
C18_GenericFailure ==
    [][(last'.op = "do_login" /\ ~(last'.checked /\ last'.result)) =>
        /\ last'.message = "Login failed"
        /\ last'.raised \notin RevealingErrors
        /\ app_state'[last'.session].state = "login"
        /\ ~app_state'[last'.session].is_logged_in]_vars

\* C14 (as claimed): after a logout the AppState of the session is that of a
\* fresh session: state=login, is_logged_in false, no image_handler, no username.
C14_LogoutResets ==
    [][last'.op = "do_logout" => app_state'[last'.session] = NewAppState]_vars

----------------------------------------------------------------------------
(* Properties of the receipt directories and the collect page *)

UploadRan == last'.op = "do_upload_image" /\ last'.raised = ""

\* C15: the target directory depends on the account's extraction directory,
\* the file name and the SHA-256 of the bytes only; the second upload of the
\* same bytes under the same name gets the same directory and loads it, and no
\* second directory is made.
C15_SameUploadSameDirectory ==
    [][UploadRan =>
        LET s == last'.session
            f == Get(last'.file)
            h == Get(app_state'[s].image_handler)
            dir == get_image_dir_name(settings[s], get_image_hash(f.bytes), f.name)
        IN /\ h.target_directory = dir
           /\ \A g \in Uploads :
                 (get_image_dir_name(settings[s], get_image_hash(g.bytes), g.name) = dir)
                    <=> (g.name = f.name /\ g.bytes = f.bytes)
           /\ DOMAIN fs' = DOMAIN fs \cup {dir}
           /\ dir \in DOMAIN fs =>
                 /\ h = from_target_directory(fs, dir)
                 /\ fs' = fs]_vars

\* C15 witness: a.jpg is uploaded again after its data were extracted, and the
\* wizard resumes at wrangle with the directory's receipt
C15_Witness ==
    /\ last.op = "do_upload_image" /\ last.raised = ""
    /\ Get(last.file).name = "a.jpg"
    /\ app_state["s1"].state = "wrangle"
    /\ ~IsNone(Get(app_state["s1"].image_handler).extracted_receipt_info)
    /\ Cardinality(DOMAIN fs) = 1

\* C16 (as claimed): a handler saved and loaded again from its target directory
\* has the same original_image_bytes and original_file_name and, when data were
\* saved, the same shop and item records.
C16_RoundTrip ==
    [][UploadRan =>
        LET h == Get(app_state'[last'.session].image_handler)
            r == from_target_directory(fs', h.target_directory)
        IN /\ r.original_image_bytes = h.original_image_bytes
           /\ r.original_file_name = h.original_file_name
           /\ ~IsNone(h.extracted_receipt_info) =>
                 r.extracted_receipt_info = h.extracted_receipt_info]_vars

\* the data files a handler writes for the receipt it holds
DataFilesOf(h) ==
    LET shop == convert_to_dataframe_shop(Get(h.extracted_receipt_info))
        items == convert_to_dataframe_items(Get(h.extracted_receipt_info))
    IN [EmptyDir EXCEPT
          ![StoredFileNames.shop_info_json] =
               Some(<<"json", << [shop[1] EXCEPT !.time = None] >> >>),
          ![StoredFileNames.shop_info_parquet] =
               Some(<<"parquet", << [shop[1] EXCEPT !.time = None] >> >>),
          ![StoredFileNames.items_info_json] = Some(<<"json", items>>),
          ![StoredFileNames.items_info_parquet] = Some(<<"parquet", items>>)]

DataFileNames == {StoredFileNames.shop_info_json, StoredFileNames.shop_info_parquet,
                  StoredFileNames.items_info_json, StoredFileNames.items_info_parquet}

\* C17: the upload step writes with overwrite=False: no file that is there is
\* changed by it; rotate, crop and extract overwrite their artifact.
C17_UploadKeepsFiles ==
    [][LET s == last'.session
           h == Get(app_state'[s].image_handler)
           d == h.target_directory
       IN /\ last'.op = "do_upload_image" =>
                \A x \in DOMAIN fs : \A n \in FileNames :
                    ~IsNone(fs[x][n]) => (x \in DOMAIN fs' /\ fs'[x][n] = fs[x][n])
          /\ (last'.op \in {"do_rotate", "do_crop"} /\ last'.raised = "") =>
                fs'[d][StoredFileNames.edited_image] =
                    Some(JpegFile(Get(h.edited_image)))
          /\ (last'.op = "do_extract" /\ last'.raised = "") =>
                \A n \in DataFileNames : fs'[d][n] = DataFilesOf(h)[n]]_vars

\* C17 witness: the crop step has replaced the rotated image on disk
C17_Witness ==
    /\ last.op = "do_crop" /\ last.raised = ""
    /\ LET h == Get(app_state["s1"].image_handler)
       IN /\ Get(h.edited_image).crop = "box"
          /\ fs[h.target_directory][StoredFileNames.edited_image] =
                 Some(JpegFile(Get(h.edited_image)))

\* C19 (as claimed): "Run collection" with shop-info files or item-info files
\* missing shows an error, and "Create zip-file" without a compiled table
\* shows an error and gives empty archive bytes.
C19_MissingInputsReported ==
    [][LET s == last'.session
           found == check_available_extraction_dirs(fs, settings[s])
       IN /\ (last'.op = "collect" /\
                 (found.shop_info_files = {} \/ found.items_info_files = {})) =>
                 (last'.message # "" /\ last'.message # "Done collecting" /\ fs' = fs)
          /\ (last'.op = "compress" /\
                 ~Exists(fs, CollationDir(settings[s]), StoredFileNames.shop_info_parquet) /\
                 ~Exists(fs, CollationDir(settings[s]), StoredFileNames.items_info_parquet)) =>
                 (last'.message # "" /\ last'.message # "Zip file extractions.zip created"
                  /\ last'.archive = <<>>)]_vars

----------------------------------------------------------------------------
(* Properties of the wizard *)

\* the transition table: who may move the state from where to where
Edges ==
    [do_login |-> {<<"login", "upload">>},
     do_upload_image |-> {<<"upload", "rotate">>, <<"upload", "wrangle">>},
     do_rotate |-> {<<"rotate", "crop">>},
     do_crop |-> {<<"crop", "extract">>},
     do_extract |-> {<<"extract", "wrangle">>},
     do_wrangle |-> {<<"wrangle", "done">>},
     do_done |-> {<<"done", "upload">>},
     do_logout |-> {<<st, "login">> : st \in States \ {"login"}}]

\* C3: the state of a session changes only along the edges of the transition
\* table, each taken by its own step; the step into login is a logout of a
\* logged-in session and clears is_logged_in, the step out of login is an
\* accepted login.
C3_OnlyTableEdges ==
    [][\A s \in AllSessions :
        app_state'[s].state # app_state[s].state =>
            /\ last'.session = s
            /\ last'.op \in DOMAIN Edges
            /\ <<app_state[s].state, app_state'[s].state>> \in Edges[last'.op]
            /\ last'.op = "do_logout" =>
                  (app_state[s].is_logged_in /\ ~app_state'[s].is_logged_in)
            /\ last'.op = "do_login" => (last'.result /\ app_state'[s].is_logged_in)]_vars

\* C3 witness: a receipt went through the whole table and the wizard is back at upload
C3_Witness ==
    /\ last.op = "do_done" /\ app_state["s1"].state = "upload"
    /\ ~IsNone(app_state["s1"].image_handler)
    /\ Get(app_state["s1"].image_handler).cropped

\* C4: identify_image_processing_state answers wrangle when the handler holds
\* extracted data and rotate otherwise, whatever the flags, the angle and the
\* edited image; the state after an upload is its answer for the new handler.
C4_IdentifyRule ==
    [][\A s \in AllSessions :
        /\ (last'.op = "identify_image_processing_state" /\ last'.session = s) =>
              last'.returned =
                  IF IsNone(Get(app_state[s].image_handler).extracted_receipt_info)
                  THEN "rotate" ELSE "wrangle"
        /\ (last'.op = "do_upload_image" /\ last'.session = s /\ last'.raised = "") =>
              app_state'[s].state =
                  IF IsNone(Get(app_state'[s].image_handler).extracted_receipt_info)
                  THEN "rotate" ELSE "wrangle"]_vars

\* C4 witness: a rotated and cropped handler without data is sent to rotate
C4_Witness ==
    /\ last.op = "identify_image_processing_state" /\ last.returned = "rotate"
    /\ Get(app_state["s1"].image_handler).rotated
    /\ Get(app_state["s1"].image_handler).cropped
    /\ ~IsNone(Get(app_state["s1"].image_handler).edited_image)

\* C5 (as claimed): after wrangle -> done the extracted-data files of the target
\* directory hold the data submitted from the editor, so loading the directory
\* again yields the edited data.
C5_EditedDataPersisted ==
    \A s \in AllSessions :
        (last.op = "do_wrangle" /\ last.session = s /\ app_state[s].state = "done") =>
            LET h == Get(app_state[s].image_handler) IN
            /\ h.target_directory \in DOMAIN fs
            /\ from_target_directory(fs, h.target_directory).extracted_receipt_info
                   = h.extracted_receipt_info

\* C7: do_rotate, do_crop, do_extract and do_wrangle raise ValueError when the
\* handler is None (do_wrangle also without edited image or extracted data),
\* with the AppState and the files unchanged and no extraction request made.
C7_MissingHandlerRaises ==
    [][\A s \in AllSessions :
        LET missing == IsNone(app_state[s].image_handler)
            incomplete ==
                \/ missing
                \/ IsNone(Get(app_state[s].image_handler).edited_image)
                \/ IsNone(Get(app_state[s].image_handler).extracted_receipt_info)
        IN (/\ last'.session = s
            /\ \/ last'.op \in {"do_rotate", "do_crop", "do_extract"} /\ missing
               \/ last'.op = "do_wrangle" /\ incomplete)
           => /\ last'.raised = "ValueError"
              /\ app_state' = app_state
              /\ fs' = fs
              /\ last'.calls = <<>>]_vars

\* C7 witness: the extract step has raised for a session without a handler
C7_Witness ==
    /\ last.op = "do_extract" /\ last.raised = "ValueError"
    /\ IsNone(app_state["s1"].image_handler)
    /\ app_state["s1"].state = "extract"

----------------------------------------------------------------------------
(* Properties of save_image_as_jpg_file *)

\* C21: save_image_as_jpg_file called for a file that exists with overwrite
\* false raises nothing and leaves the disk as it was; with overwrite true and
\* the directory there, the file holds the new image and no other file
\* changes; with the directory missing and mkdir false it raises
\* FileNotFoundError and the disk is as it was (no directory, no file); with
\* the directory missing and mkdir true the directory is made and holds the
\* new image as its only file
C21_SavePolicy ==
    [][last'.op = "save_image_as_jpg_file" =>
        LET a == Get(last'.args)
            there == a.dir \in DOMAIN fs
            written == Some(JpegFile(a.image))
        IN /\ (Exists(fs, a.dir, a.name) /\ ~a.overwrite) =>
                  (last'.raised = "" /\ fs' = fs)
           /\ (there /\ a.overwrite) =>
                  (last'.raised = "" /\ fs' = WriteFile(fs, a.dir, a.name, JpegFile(a.image)))
           /\ (~there /\ ~a.mkdir) =>
                  (last'.raised = "FileNotFoundError" /\ fs' = fs)
           /\ (~there /\ a.mkdir) =>
                  /\ last'.raised = ""
                  /\ DOMAIN fs' = DOMAIN fs \cup {a.dir}
                  /\ \A d \in DOMAIN fs : fs'[d] = fs[d]
                  /\ fs'[a.dir] = [EmptyDir EXCEPT ![a.name] = written]]_vars

\* a call with overwrite true has replaced the edited image of a directory that
\* still holds its original image
C21_Witness ==
    /\ last.op = "save_image_as_jpg_file"
    /\ last.raised = ""
    /\ ~IsNone(last.args)
    /\ Get(last.args).overwrite
    /\ Get(last.args).name = StoredFileNames.edited_image
    /\ Exists(fs, Get(last.args).dir, StoredFileNames.original_image)
    /\ fs[Get(last.args).dir][StoredFileNames.edited_image] =
          Some(JpegFile(Get(last.args).image))
    /\ ImageOpenFile(Get(fs[Get(last.args).dir][StoredFileNames.original_image])) #
          Get(last.args).image

----------------------------------------------------------------------------
(* Further properties of the wizard *)

\* C22: a run of do_done happens in state DONE, sets the state to UPLOAD and
\* changes nothing else: image_handler, username and is_logged_in of the
\* session, the other sessions, the settings and the disk are as before
C22_DoneFrame ==
    [][last'.op = "do_done" =>
        LET s == last'.session
        IN /\ app_state[s].state = "done"
           /\ app_state' = [app_state EXCEPT ![s] = [@ EXCEPT !.state = "upload"]]
           /\ app_state'[s].image_handler = app_state[s].image_handler
           /\ app_state'[s].username = app_state[s].username
           /\ app_state'[s].is_logged_in = app_state[s].is_logged_in
           /\ fs' = fs /\ settings' = settings /\ attempts' = attempts]_vars

\* do_done has run: the session is back at UPLOAD with the finished receipt's
\* handler still attached
C22_Witness ==
    /\ last.op = "do_done"
    /\ app_state[last.session].state = "upload"
    /\ app_state[last.session].is_logged_in
    /\ ~IsNone(app_state[last.session].image_handler)
    /\ ~IsNone(Get(app_state[last.session].image_handler).extracted_receipt_info)

\* C23: no session is ever in the SAVE state, whatever logins, logouts,
\* uploads, continues and automatic steps have run
C23_SaveUnreachable ==
    \A s \in AllSessions : app_state[s].state # "save"

\* a receipt went through the whole wizard: do_wrangle has just saved it and
\* the session stands at DONE, the last state before do_done
C23_Witness ==
    /\ last.op = "do_wrangle"
    /\ last.raised = ""
    /\ app_state[last.session].state = "done"

----------------------------------------------------------------------------
(* Further properties of the sessions *)

\* C24: a session that is logged in with username u has Settings whose
\* data.username is u, so that its extraction and collation directories are
\* the ones of u
C24_SettingsOfUser ==
    \A s \in sessions :
        app_state[s].is_logged_in =>
            /\ settings[s] = app_state[s].username
            /\ _root_dir(Get(settings[s])) = _root_dir(Get(app_state[s].username))

\* the steps of the wizard that raise when the session has no handler
HandlerSteps == {"rotate", "crop", "extract", "wrangle"}

\* C25: whenever the process page of a session would run one of ROTATE, CROP,
\* EXTRACT and WRANGLE, the session has an image handler, whatever logins,
\* logouts, uploads, continues and automatic steps came before
C25_HandlerPresent ==
    \A s \in sessions :
        set_logging_in_state_if_not_logged_in(app_state[s]).state \in HandlerSteps =>
            ~IsNone(app_state[s].image_handler)

\* a session logged in again past the rate window and went on into the wizard:
\* it stands at CROP with a handler
C25_Witness ==
    /\ last.op = "do_rotate"
    /\ now > RATE_LIMIT_WINDOW
    /\ app_state[last.session].is_logged_in
    /\ app_state[last.session].state = "crop"
    /\ ~IsNone(app_state[last.session].image_handler)

\* C26: in the AppState a page run starts from, after main has called
\* set_logging_in_state_if_not_logged_in, is_logged_in is false exactly when
\* the state is LOGIN, and a logged-in AppState has a username
C26_LoginStateAgree ==
    \A s \in sessions :
        LET as == set_logging_in_state_if_not_logged_in(app_state[s])
        IN /\ (~as.is_logged_in) <=> (as.state = "login")
           /\ as.is_logged_in => ~IsNone(as.username)

\* one session is logged in and inside the wizard while the other has logged
\* out again and stands at LOGIN
C26_Witness ==
    \E s, r \in sessions :
        /\ app_state[s].is_logged_in
        /\ app_state[s].state = "rotate"
        /\ app_state[s].username = Some("og")
        /\ last.op = "do_logout" /\ last.session = r
        /\ ~app_state[r].is_logged_in
        /\ set_logging_in_state_if_not_logged_in(app_state[r]).state = "login"

----------------------------------------------------------------------------
(* Properties of the wizard next to the collect page *)

\* C27: whenever a logged-in session stands at ROTATE, CROP, EXTRACT or
\* WRANGLE, the target directory of its handler is on disk, and no run of
\* do_rotate, do_crop, do_extract or do_wrangle ends in FileNotFoundError,
\* whichever session pressed "Delete history" in between
C27_TargetDirectoryExists ==
    /\ \A s \in sessions :
          (/\ app_state[s].is_logged_in
           /\ app_state[s].state \in HandlerSteps
           /\ ~IsNone(app_state[s].image_handler)) =>
              Get(app_state[s].image_handler).target_directory \in DOMAIN fs
    /\ last.op \in {"do_rotate", "do_crop", "do_extract", "do_wrangle"} =>
          last.raised # "FileNotFoundError"

----------------------------------------------------------------------------
(* Properties of the rate limiter across sessions *)

\* C28: the attempts table is keyed by username and is the same for every
\* session: a login for u checked in any session while the record of u,
\* whichever session made it, is inside its window is counted on that record
\* and rejected whatever the password, and it changes the record of no other
\* username
C28_LimiterShared ==
    [][CheckedLogin =>
        LET u == last'.username IN
        /\ InWindow(u) =>
              /\ ~last'.result /\ last'.exceeded
              /\ attempts'[u] = [attempts[u] EXCEPT !.count = @ + 1]
              /\ app_state' = app_state
        /\ \A o \in DOMAIN attempts' \ {u} : o \in DOMAIN attempts /\ attempts'[o] = attempts[o]
        /\ DOMAIN attempts' \subseteq UsernameInputs]_vars

\* og logged in from the first session, which then logged out and tried al; in
\* the same window the second session, which never logged in, submits og's
\* right password and is rejected, while the record of al is as al's attempt
\* left it
C28_Witness ==
    /\ now = 0
    /\ last.op = "do_login" /\ last.session = "s2"
    /\ last.username = "og" /\ last.password = "pw_og"
    /\ last.exceeded /\ ~last.result
    /\ app_state["s1"].username = Some("og")
    /\ IsNone(app_state["s2"].username)
    /\ attempts["og"].count = 2
    /\ "al" \in DOMAIN attempts /\ attempts["al"].count = 1

\* a receipt directory whose shop-info and items-info parquet files are there
HasData(files, dir) ==
    /\ Exists(files, dir, StoredFileNames.shop_info_parquet)
    /\ Exists(files, dir, StoredFileNames.items_info_parquet)

----------------------------------------------------------------------------
(* Progress of the wizard *)

\* C30: Continue pressed at UPLOAD with a file chosen takes the session to
\* ROTATE or WRANGLE; a session there, at CROP or at EXTRACT reaches DONE, and
\* from DONE it returns to UPLOAD; at EXTRACT and at DONE the only step is
\* the page's own do_extract or do_done; and a run of do_extract whose request
\* fails leaves the AppState (state EXTRACT, no receipt data) and the disk as
\* they were
C30_Progress ==
    /\ (app_state["s1"].state \in HandlerSteps) ~> (app_state["s1"].state = "done")
    /\ (app_state["s1"].state = "done") ~> (app_state["s1"].state = "upload")
    /\ [][/\ last'.op = "do_upload_image" =>
                /\ app_state["s1"].state = "upload"
                /\ last'.raised = ""
                /\ app_state'["s1"].state \in {"rotate", "wrangle"}
          /\ app_state["s1"].state = "extract" => last'.op = "do_extract"
          /\ app_state["s1"].state = "done" => last'.op = "do_done"
          /\ (last'.op = "do_extract" /\ last'.raised # "") =>
                /\ app_state["s1"].state = "extract"
                /\ app_state' = app_state
                /\ fs' = fs]_vars

\* a second receipt went through EXTRACT, WRANGLE and DONE back to UPLOAD
C30_Witness ==
    /\ last.op = "do_done"
    /\ app_state["s1"].state = "upload"
    /\ HasData(fs, Get(app_state["s1"].image_handler).target_directory)
    /\ Cardinality(DOMAIN fs) = 2

====
